---- MODULE Spec2Model ----
(***************************************************************************)
(* State-machine model of the biogo sequence codecs:                       *)
(*   fasta.Reader / fasta.Writer     (header/body format, "Record-B")      *)
(*   fastq.Reader / fastq.Writer     (four-line format,   "Record-A")      *)
(*   alignio.Reader / alignio.Writer (collection adapter)                  *)
(* Bytes are one-character strings, byte slices are sequences of them.     *)
(* Every call of a method is one action; its outcome is appended to hist.  *)
(***************************************************************************)
EXTENDS Integers, Sequences, FiniteSets, TLC

VARIABLES
    comp,   \* the object under construction: "fasta", "fastq", ...
    f,      \* the underlying stream: [data, err, seeker, pos]
    r,      \* bufio.Reader over f: the bytes buffered and not yet consumed
    last,   \* fasta.Reader.last, the lookahead label (Nil or Some(label))
    enc,    \* fastq.Reader.enc, the encoding resolved by NewReader
    w,      \* bufio.Writer over f (fasta.Writer.w): [buf, err]
    Width,  \* fasta.Writer.Width
    QID,    \* fastq.Writer.QID
    hist    \* the calls made so far, each with what it returned

vars == <<comp, f, r, last, enc, w, Width, QID, hist>>

\* What a reader leaves alone, and what a writer does.
writerVars == <<w, Width, QID>>
readerVars == <<r, last, enc>>

---------------------------------------------------------------------------
(* Bounds of the model *)

MaxLines == 4
MaxCalls == 3
MaxRecs == 2
MaxWrites == 2
MaxWidth == 3
MaxLen == 6
MaxRoom == 4
MaxColl == 2
MaxCloses == 2
BufSize == 4

---------------------------------------------------------------------------
(* Optional values: a nil pointer or slice is Nil, a present one Some(v). *)

Nil == <<>>
Some(v) == <<v>>

NL == "\n"
CR == "\r"

\* An entry of hist: the call op, the value and error it returned, and what
\* it met on the way: rderr, the error the underlying stream read reported to
\* it ("nil" when none did), and sub, the lines it consumed (a reader) or the
\* calls it made of the wrapped object (an adapter).
Entry(op, val, err, rderr, sub) ==
    [op |-> op, seq |-> val, err |-> err, rderr |-> rderr, sub |-> sub]

\* unicode.IsSpace restricted to the bytes of the model
Space == {" ", "\t", CR, NL}

MinOf(S) == CHOOSE x \in S : \A y \in S : x <= y
MaxOf(S) == CHOOSE x \in S : \A y \in S : y <= x

TrimSpace(s) ==
    LET keep == {i \in 1..Len(s) : s[i] \notin Space}
    IN  IF keep = {} THEN <<>> ELSE SubSeq(s, MinOf(keep), MaxOf(keep))

NotSpace(c) == c \notin Space

\* bytes.Join(bytes.Fields(s), nil)
JoinFields(s) == SelectSeq(s, NotSpace)

HasPrefix(s, p) == Len(s) >= Len(p) /\ SubSeq(s, 1, Len(p)) = p

\* bytes.IndexAny(s, chars), 1-based; 0 when absent
IndexAny(s, chars) ==
    LET hit == {i \in 1..Len(s) : s[i] \in chars}
    IN  IF hit = {} THEN 0 ELSE MinOf(hit)

RECURSIVE Flatten(_)
Flatten(ss) == IF ss = <<>> THEN <<>> ELSE Head(ss) \o Flatten(Tail(ss))

---------------------------------------------------------------------------
(* bufio.Reader over the underlying stream.  The stream holds data and     *)
(* then reports err ("EOF" or "IOError") on every further read.            *)

\* One b.fill(): a single read of the underlying stream into the free part
\* of the buffer.
Fill(st, buf) ==
    LET n == MinOf({BufSize - Len(buf), Len(st.data) - st.pos + 1})
    IN  IF n > 0
        THEN [st |-> [st EXCEPT !.pos = st.pos + n],
              buf |-> buf \o SubSeq(st.data, st.pos, st.pos + n - 1),
              err |-> "nil"]
        ELSE [st |-> st, buf |-> buf, err |-> st.err]

RECURSIVE ReadSlice(_, _, _)
ReadSlice(st, buf, pending) ==
    LET nl == {i \in 1..Len(buf) : buf[i] = NL}
    IN  IF nl # {}
        THEN [line |-> SubSeq(buf, 1, MinOf(nl)), err |-> "nil", st |-> st,
              buf |-> SubSeq(buf, MinOf(nl) + 1, Len(buf))]
        ELSE IF pending # "nil"
        THEN [line |-> buf, err |-> pending, st |-> st, buf |-> <<>>]
        ELSE IF Len(buf) >= BufSize
        THEN [line |-> buf, err |-> "BufferFull", st |-> st, buf |-> <<>>]
        ELSE LET fl == Fill(st, buf) IN ReadSlice(fl.st, fl.buf, fl.err)

RECURSIVE ReadBytesFrom(_, _, _)
ReadBytesFrom(st, buf, acc) ==
    LET rs == ReadSlice(st, buf, "nil")
    IN  IF rs.err = "BufferFull"
        THEN ReadBytesFrom(rs.st, rs.buf, acc \o rs.line)
        ELSE [line |-> acc \o rs.line, err |-> rs.err, st |-> rs.st, buf |-> rs.buf]

\* b.ReadBytes('\n')
ReadBytes(st, buf) == ReadBytesFrom(st, buf, <<>>)

\* b.ReadLine()
ReadLine(st, buf) ==
    LET rs == ReadSlice(st, buf, "nil")
        n  == Len(rs.line)
    IN  IF rs.err = "BufferFull"
        THEN IF n > 0 /\ rs.line[n] = CR
             THEN [line |-> SubSeq(rs.line, 1, n - 1), isPrefix |-> TRUE,
                   err |-> "nil", st |-> rs.st, buf |-> <<CR>> \o rs.buf]
             ELSE [line |-> rs.line, isPrefix |-> TRUE, err |-> "nil",
                   st |-> rs.st, buf |-> rs.buf]
        ELSE IF n = 0
        THEN [line |-> <<>>, isPrefix |-> FALSE, err |-> rs.err,
              st |-> rs.st, buf |-> rs.buf]
        ELSE LET drop == IF rs.line[n] # NL THEN 0
                         ELSE IF n > 1 /\ rs.line[n - 1] = CR THEN 2 ELSE 1
             IN  [line |-> SubSeq(rs.line, 1, n - drop), isPrefix |-> FALSE,
                  err |-> "nil", st |-> rs.st, buf |-> rs.buf]

---------------------------------------------------------------------------
(* fasta.Reader *)

IDPrefix == <<">">>
SeqPrefix == <<>>

\* seq.New(id, seq, nil)
SeqNew(id, body) == [ID |-> id, Seq |-> body]

RECURSIVE FastaReadLoop(_, _, _, _, _, _)
FastaReadLoop(st, buf, lst, label, body, seen) ==
    LET rb == ReadBytes(st, buf)
    IN  IF rb.err = "nil"
        THEN LET n    == Len(rb.line)
                 l0   == IF n > 0 /\ rb.line[n] = CR
                         THEN SubSeq(rb.line, 1, n - 1) ELSE rb.line
                 line == TrimSpace(l0)
                 rest == SubSeq(line, Len(IDPrefix) + 1, Len(line))
             IN  IF Len(line) = 0
                 THEN FastaReadLoop(rb.st, rb.buf, lst, label, body, seen)
                 ELSE IF HasPrefix(line, IDPrefix)
                 THEN IF lst = Nil
                      THEN FastaReadLoop(rb.st, rb.buf, Some(rest), Some(rest), body,
                                         Append(seen, line))
                      ELSE [seq |-> Some(SeqNew(lst, body)), err |-> "nil",
                            st |-> rb.st, buf |-> rb.buf, last |-> Some(rest),
                            rderr |-> "nil", seen |-> Append(seen, line)]
                 ELSE IF HasPrefix(line, SeqPrefix)
                 THEN FastaReadLoop(rb.st, rb.buf, lst, label,
                         body \o JoinFields(SubSeq(line, Len(SeqPrefix) + 1, Len(line))),
                         Append(seen, line))
                 ELSE FastaReadLoop(rb.st, rb.buf, lst, label, body, Append(seen, line))
        ELSE IF lst # Nil
        THEN [seq |-> Some(SeqNew(label, body)), err |-> "nil",
              st |-> rb.st, buf |-> rb.buf, last |-> Nil,
              rderr |-> rb.err, seen |-> seen]
        ELSE [seq |-> Nil, err |-> "EOF",
              st |-> rb.st, buf |-> rb.buf, last |-> lst,
              rderr |-> rb.err, seen |-> seen]

\* Mutant: the lookahead label is not picked up by the next Read.
FastaReaderRead_NoLookahead(st, buf, lst) ==
    FastaReadLoop(st, buf, Nil, Nil, <<>>, <<>>)

\* func (self *Reader) Read() (sequence *seq.Seq, err os.Error)
FastaReaderRead(st, buf, lst) == FastaReadLoop(st, buf, lst, lst, <<>>, <<>>)

\* The calls made of a reader.
NumCalls(h) == Len(SelectSeq(h, LAMBDA e : e.op \in {"Read", "Rewind", "ReadAll"}))

\* The reader's state after a Read that ended as res, and the call's entry.
Returned(res) ==
    /\ f' = res.st
    /\ r' = res.buf
    /\ last' = res.last
    /\ hist' = Append(hist, Entry("Read", res.seq, res.err, res.rderr, res.seen))

FastaRead ==
    /\ comp = "fasta"
    /\ NumCalls(hist) < MaxCalls
    /\ Returned(FastaReaderRead(f, r, last))
    /\ UNCHANGED <<comp, enc, writerVars>>

\* Mutant: the lookahead is cleared before the stream is found not seekable.
FastaRewind_ClearsLast ==
    /\ comp = "fasta"
    /\ NumCalls(hist) < MaxCalls
    /\ last' = Nil
    /\ IF f.seeker
       THEN /\ f' = [f EXCEPT !.pos = 1]
            /\ hist' = Append(hist, Entry("Rewind", Nil, "nil", "nil", <<>>))
       ELSE /\ hist' = Append(hist, Entry("Rewind", Nil, "NotSeeker", "nil", <<>>))
            /\ UNCHANGED f
    /\ UNCHANGED <<comp, r, enc, writerVars>>

\* func (self *Reader) Rewind() (err os.Error)
FastaRewind ==
    /\ comp = "fasta"
    /\ NumCalls(hist) < MaxCalls
    /\ IF f.seeker
       THEN /\ last' = Nil
            /\ f' = [f EXCEPT !.pos = 1]
            /\ hist' = Append(hist, Entry("Rewind", Nil, "nil", "nil", <<>>))
       ELSE /\ hist' = Append(hist, Entry("Rewind", Nil, "NotSeeker", "nil", <<>>))
            /\ UNCHANGED <<f, last>>
    /\ UNCHANGED <<comp, r, enc, writerVars>>

---------------------------------------------------------------------------
(* alphabet.Encoding: the quality codec, a byte <-> score offset table.    *)

\* The value of a byte of the model.
Ord(c) ==
    CASE c = "\t" -> 9  [] c = NL -> 10  [] c = CR -> 13 [] c = " " -> 32
      [] c = "!" -> 33   [] c = "+" -> 43  [] c = ">" -> 62 [] c = "@" -> 64
      [] c = "A" -> 65   [] c = "C" -> 67  [] c = "G" -> 71 [] c = "J" -> 74
      [] c = "T" -> 84   [] c = "_" -> 95  [] c = "a" -> 97 [] c = "b" -> 98
      [] c = "d" -> 100

Bytes ==
    {"\t", NL, CR, " ", "!", "+", ">", "@", "A", "C", "G", "J", "T", "_", "a", "b", "d"}

Chr(n) == CHOOSE c \in Bytes : Ord(c) = n

Offset(e) == CASE e = "Sanger" -> 33 [] e = "Illumina1_3" -> 64 [] e = "None" -> 0

\* Encoding.DecodeToQphred(b): Qphred is a byte
DecodeToQphred(e, b) == (Ord(b) - Offset(e)) % 256

\* Qphred.Encode(e)
Encode(q, e) == Chr((q + Offset(e)) % 256)

---------------------------------------------------------------------------
(* fastq.Reader *)

ErrNoHeader == "fastq: no header line parsed before +line in fastq format"
ErrHeaderMismatch == "fastq: quality header does not match sequence header"
ErrLengthMismatch == "fastq: sequence/quality length mismatch"
ProtocolError == {ErrNoHeader, ErrHeaderMismatch, ErrLengthMismatch}

\* r.t.Clone(): a fresh sequence of the template's shape
Clone == [name |-> <<>>, desc |-> <<>>, letters |-> <<>>]

\* Mutant: the whole text after the sigil is the name.
readHeader_NoSplit(line) == [Clone EXCEPT !.name = SubSeq(line, 2, Len(line))]

\* func (r *Reader) readHeader(line []byte) seqio.SequenceAppender
readHeader(line) ==
    LET fieldMark == IndexAny(line, {" ", "\t"})
    IN  IF fieldMark = 0
        THEN [Clone EXCEPT !.name = SubSeq(line, 2, Len(line))]
        ELSE [Clone EXCEPT !.name = SubSeq(line, 2, fieldMark - 1),
                           !.desc = SubSeq(line, fieldMark + 1, Len(line))]

\* Mutant: the separator's text is compared with the header's name only.
SeparatorMatches_NameOnly(label, line) ==
    Len(line) <= 1 \/ readHeader(label).name = SubSeq(line, 2, Len(line))

\* len(line) > 1 && bytes.Compare(label[1:], line[1:]) != 0, negated
SeparatorMatches(label, line) ==
    ~(Len(line) > 1 /\ SubSeq(label, 2, Len(label)) # SubSeq(line, 2, Len(line)))

\* Mutant: a quality line shorter than the letters is let through.
QualityFits_AtMost(flds, seqBuff) == Len(flds) <= Len(seqBuff)

\* len(line) != len(seqBuff), negated
QualityFits(flds, seqBuff) == ~(Len(flds) # Len(seqBuff))

RECURSIVE FastqReadLoop(_, _, _, _, _, _, _, _, _)
\* Mutant: the sigils are looked at before the state, also in a quality line.
FastqReadLoop_SigilFirst(st, buf, e, line0, label, seqBuff, t, inQual, seen) ==
    LET rl == ReadLine(st, buf)
        Ret(sq, err, rderr, sn) ==
            [seq |-> sq, err |-> err, st |-> rl.st, buf |-> rl.buf, last |-> Nil,
             rderr |-> rderr, seen |-> sn]
    IN  IF rl.err # "nil"
        THEN Ret(Nil, rl.err, rl.err, seen)
        ELSE IF rl.isPrefix
        THEN FastqReadLoop(rl.st, rl.buf, e, line0 \o rl.line, label, seqBuff, t,
                           inQual, seen)
        ELSE
        LET line == TrimSpace(line0 \o rl.line)
            flds == JoinFields(line)
            sn   == Append(seen, line)
        IN  IF Len(line) = 0
            THEN FastqReadLoop(rl.st, rl.buf, e, <<>>, label, seqBuff, t, inQual, seen)
            ELSE IF line[1] = "@"
            THEN FastqReadLoop(rl.st, rl.buf, e, <<>>, line, seqBuff,
                               Some(readHeader(line)), inQual, sn)
            ELSE IF line[1] = "+"
            THEN IF Len(label) = 0
                 THEN Ret(Nil, ErrNoHeader, "nil", sn)
                 ELSE IF ~SeparatorMatches(label, line)
                 THEN Ret(Nil, ErrHeaderMismatch, "nil", sn)
                 ELSE FastqReadLoop(rl.st, rl.buf, e, <<>>, label, seqBuff, t, TRUE, sn)
            ELSE IF ~inQual
            THEN FastqReadLoop(rl.st, rl.buf, e, <<>>, label,
                               [i \in 1..Len(flds) |-> [L |-> flds[i], Q |-> 0]],
                               t, inQual, sn)
            ELSE IF ~QualityFits(flds, seqBuff)
            THEN Ret(Nil, ErrLengthMismatch, "nil", sn)
            ELSE IF t = Nil
            THEN Ret(Nil, "panic", "nil", sn)
            ELSE Ret(Some([t[1] EXCEPT !.letters = t[1].letters \o
                        [i \in 1..Len(flds) |->
                            [L |-> seqBuff[i].L, Q |-> DecodeToQphred(e, flds[i])]]]),
                     "nil", "nil", sn)

FastqReadLoop(st, buf, e, line0, label, seqBuff, t, inQual, seen) ==
    LET rl == ReadLine(st, buf)
        Ret(sq, err, rderr, sn) ==
            [seq |-> sq, err |-> err, st |-> rl.st, buf |-> rl.buf, last |-> Nil,
             rderr |-> rderr, seen |-> sn]
    IN  IF rl.err # "nil"
        THEN Ret(Nil, rl.err, rl.err, seen)
        ELSE IF rl.isPrefix
        THEN FastqReadLoop(rl.st, rl.buf, e, line0 \o rl.line, label, seqBuff, t,
                           inQual, seen)
        ELSE
        LET line == TrimSpace(line0 \o rl.line)
            flds == JoinFields(line)
            sn   == Append(seen, line)
        IN  IF Len(line) = 0
            THEN FastqReadLoop(rl.st, rl.buf, e, <<>>, label, seqBuff, t, inQual, seen)
            ELSE IF ~inQual /\ line[1] = "@"
            THEN FastqReadLoop(rl.st, rl.buf, e, <<>>, line, seqBuff,
                               Some(readHeader(line)), inQual, sn)
            ELSE IF ~inQual /\ line[1] = "+"
            THEN IF Len(label) = 0
                 THEN Ret(Nil, ErrNoHeader, "nil", sn)
                 ELSE IF ~SeparatorMatches(label, line)
                 THEN Ret(Nil, ErrHeaderMismatch, "nil", sn)
                 ELSE FastqReadLoop(rl.st, rl.buf, e, <<>>, label, seqBuff, t, TRUE, sn)
            ELSE IF ~inQual
            THEN FastqReadLoop(rl.st, rl.buf, e, <<>>, label,
                               [i \in 1..Len(flds) |-> [L |-> flds[i], Q |-> 0]],
                               t, inQual, sn)
            ELSE IF ~QualityFits(flds, seqBuff)
            THEN Ret(Nil, ErrLengthMismatch, "nil", sn)
            ELSE IF t = Nil
            THEN Ret(Nil, "panic", "nil", sn)
            ELSE Ret(Some([t[1] EXCEPT !.letters = t[1].letters \o
                        [i \in 1..Len(flds) |->
                            [L |-> seqBuff[i].L, Q |-> DecodeToQphred(e, flds[i])]]]),
                     "nil", "nil", sn)

\* Mutant: the label of an earlier record is still held when Read begins.
FastqReaderRead_StaleLabel(st, buf, e) ==
    FastqReadLoop(st, buf, e, <<>>, <<"@", "a">>, <<>>, Nil, FALSE, <<>>)

\* func (r *Reader) Read() (seq.Sequence, error)
FastqReaderRead(st, buf, e) ==
    FastqReadLoop(st, buf, e, <<>>, <<>>, <<>>, Nil, FALSE, <<>>)

FastqRead ==
    /\ comp = "fastq"
    /\ NumCalls(hist) < MaxCalls
    /\ Returned(FastqReaderRead(f, r, enc))
    /\ UNCHANGED <<comp, enc, writerVars>>

---------------------------------------------------------------------------
(* The sink a writer is constructed over: it takes room more bytes and     *)
(* then fails every write (room < 0: it never fails).                      *)

\* An entry of hist for a writer's call: the argument, the count and error
\* returned, and sub, the writes the call issued, in order.
WEntry(op, arg, n, err, sub) ==
    [op |-> op, seq |-> arg, n |-> n, err |-> err, rderr |-> "nil", sub |-> sub]

\* f.Write(p)
SinkWrite(st, p) ==
    IF st.room < 0 \/ Len(p) <= st.room
    THEN [n |-> Len(p), err |-> "nil",
          st |-> [st EXCEPT !.data = @ \o p,
                            !.room = IF @ < 0 THEN @ ELSE @ - Len(p)]]
    ELSE [n |-> st.room, err |-> "IOError",
          st |-> [st EXCEPT !.data = @ \o SubSeq(p, 1, st.room), !.room = 0]]

\* bufio.Writer.Flush()
Flush(st, bw) ==
    IF bw.err # "nil" THEN [st |-> st, bw |-> bw, err |-> bw.err]
    ELSE IF bw.buf = <<>> THEN [st |-> st, bw |-> bw, err |-> "nil"]
    ELSE LET wr == SinkWrite(st, bw.buf)
         IN  IF wr.err # "nil"
             THEN [st |-> wr.st,
                   bw |-> [buf |-> SubSeq(bw.buf, wr.n + 1, Len(bw.buf)), err |-> wr.err],
                   err |-> wr.err]
             ELSE [st |-> wr.st, bw |-> [buf |-> <<>>, err |-> "nil"], err |-> "nil"]

\* bufio.Writer.WriteString(str)
RECURSIVE WriteStringFrom(_, _, _, _)
WriteStringFrom(st, bw, str, nn) ==
    LET avail == BufSize - Len(bw.buf)
    IN  IF Len(str) > avail /\ bw.err = "nil"
        THEN LET fl == Flush(st, [bw EXCEPT !.buf = @ \o SubSeq(str, 1, avail)])
             IN  WriteStringFrom(fl.st, fl.bw, SubSeq(str, avail + 1, Len(str)), nn + avail)
        ELSE IF bw.err # "nil"
        THEN [n |-> nn, err |-> bw.err, st |-> st, bw |-> bw]
        ELSE [n |-> nn + Len(str), err |-> "nil", st |-> st,
              bw |-> [bw EXCEPT !.buf = @ \o str]]

WriteString(st, bw, str) == WriteStringFrom(st, bw, str, 0)

---------------------------------------------------------------------------
(* fasta.Writer *)

\* string(s.ID)
IDText(s) == IF s.ID = Nil THEN <<>> ELSE s.ID[1]

\* Mutant: the loop stops one chunk early.
MoreLines_Strict(i, width, len) == i * width < len

\* i*self.Width <= s.Len(), the loop's condition
MoreLines(i, width, len) == i * width <= len

\* SeqPrefix + string(s.Seq[self.Width*i:endLinePos]) + "\n"
BodyLine(s, width, i) ==
    SeqPrefix \o SubSeq(s.Seq, width * i + 1, MinOf({width * (i + 1), Len(s.Seq)}))
              \o <<NL>>

RECURSIVE FastaWriteLines(_, _, _, _, _, _, _)
FastaWriteLine(width, s, i, n, issued, wr) ==
    IF wr.err # "nil"
    THEN [n |-> n + wr.n, err |-> wr.err, st |-> wr.st, bw |-> wr.bw,
          issued |-> Append(issued, BodyLine(s, width, i))]
    ELSE FastaWriteLines(wr.st, wr.bw, width, s, i + 1, n + wr.n,
                         Append(issued, BodyLine(s, width, i)))

FastaWriteLines(st, bw, width, s, i, n, issued) ==
    IF MoreLines(i, width, Len(s.Seq))
    THEN FastaWriteLine(width, s, i, n, issued, WriteString(st, bw, BodyLine(s, width, i)))
    ELSE [n |-> n, err |-> "nil", st |-> st, bw |-> bw, issued |-> issued]

HeaderLine(s) == IDPrefix \o IDText(s) \o <<NL>>

FastaWriteBody(width, s, hd) ==
    IF hd.err = "nil"
    THEN FastaWriteLines(hd.st, hd.bw, width, s, 0, hd.n, <<HeaderLine(s)>>)
    ELSE [n |-> hd.n, err |-> hd.err, st |-> hd.st, bw |-> hd.bw,
          issued |-> <<HeaderLine(s)>>]

\* func (self *Writer) Write(s *seq.Seq) (n int, err os.Error)
FastaWriterWrite(st, bw, width, s) ==
    FastaWriteBody(width, s, WriteString(st, bw, HeaderLine(s)))

\* The writer's state after a Write of s that ended as res, and its entry.
Wrote(op, arg, res) ==
    /\ f' = res.st
    /\ w' = res.bw
    /\ hist' = Append(hist, WEntry(op, arg, res.n, res.err, res.issued))

NumWrites(h) == Len(SelectSeq(h, LAMBDA e : e.op \in {"Write", "WriteAll"}))

\* The letters of a body of length len.
Body(len) == [i \in 1..len |-> <<"A", "C", "G", "T">>[((i - 1) % 4) + 1]]

SeqsB == {SeqNew(Some(<<"a">>), Body(len)) : len \in 0..MaxLen}

FastaWrite ==
    /\ comp = "fastaw"
    /\ ~f.closed
    /\ NumWrites(hist) < MaxWrites
    /\ \E s \in SeqsB : Wrote("Write", Some(s), FastaWriterWrite(f, w, Width, s))
    /\ UNCHANGED <<comp, Width, QID, readerVars>>

\* return self.f.Close(), reached when the flush reported no error
Closed(fl) ==
    /\ f' = IF fl.err = "nil" THEN [fl.st EXCEPT !.closed = TRUE] ELSE fl.st
    /\ w' = fl.bw
    /\ hist' = Append(hist, WEntry("Close", Nil, 0, fl.err, <<>>))

\* func (self *Writer) Close() (err os.Error)
FastaWriterClose ==
    /\ comp = "fastaw"
    /\ ~f.closed
    /\ Len(hist) - NumWrites(hist) < MaxCloses
    /\ Closed(Flush(f, w))
    /\ UNCHANGED <<comp, Width, QID, readerVars>>

---------------------------------------------------------------------------
(* fastq.Writer *)

\* Mutant: the encoding the Sequence advertises is not asked for.
WriterEncoding_AlwaysSanger(s) == "Sanger"

\* if e, ok := s.(Encoder); ok { enc = e.Encoding() } else { enc = alphabet.Sanger }
WriterEncoding(s) == IF s.encoding = Nil THEN "Sanger" ELSE s.encoding[1]

\* Mutant: the description is left out of the header.
HeaderWrites_NoDescription(prefix, s) == << <<prefix>>, s.name, <<NL>> >>

\* func (w *Writer) writeHeader(prefix byte, s seq.Sequence): its writes
HeaderWrites(prefix, s) ==
    << <<prefix>>, s.name >>
        \o (IF Len(s.desc) # 0 THEN << <<" ">>, s.desc >> ELSE <<>>)
        \o << <<NL>> >>

\* The writes of Write, in the order it issues them.
RecordWrites(s, qid) ==
    HeaderWrites("@", s)
        \o [i \in 1..Len(s.letters) |-> <<s.letters[i].L>>]
        \o << <<NL>> >>
        \o (IF qid THEN HeaderWrites("+", s) ELSE << <<"+", NL>> >>)
        \o [i \in 1..Len(s.letters) |-> <<Encode(s.letters[i].Q, WriterEncoding(s))>>]
        \o << <<NL>> >>

\* Each write is issued in turn; the first that fails ends the call.
RECURSIVE WriteEach(_, _, _, _, _)
\* Mutant: the bytes a failing write did take are left out of the count.
WroteOne_DropsCount(bw, rest, n, issued, p, wr) ==
    IF wr.err # "nil"
    THEN [n |-> n, err |-> wr.err, st |-> wr.st, bw |-> bw,
          issued |-> Append(issued, [p |-> p, n |-> wr.n, err |-> wr.err])]
    ELSE WriteEach(wr.st, bw, rest, n + wr.n,
                   Append(issued, [p |-> p, n |-> wr.n, err |-> wr.err]))

WroteOne(bw, rest, n, issued, p, wr) ==
    IF wr.err # "nil"
    THEN [n |-> n + wr.n, err |-> wr.err, st |-> wr.st, bw |-> bw,
          issued |-> Append(issued, [p |-> p, n |-> wr.n, err |-> wr.err])]
    ELSE WriteEach(wr.st, bw, rest, n + wr.n,
                   Append(issued, [p |-> p, n |-> wr.n, err |-> wr.err]))

WriteEach(st, bw, writes, n, issued) ==
    IF writes = <<>>
    THEN [n |-> n, err |-> "nil", st |-> st, bw |-> bw, issued |-> issued]
    ELSE WroteOne(bw, Tail(writes), n, issued, Head(writes), SinkWrite(st, Head(writes)))

\* func (w *Writer) Write(s seq.Sequence) (n int, err error)
FastqWriterWrite(st, bw, qid, s) == WriteEach(st, bw, RecordWrites(s, qid), 0, <<>>)

QSeq(name, desc, letters, e) ==
    [name |-> name, desc |-> desc, letters |-> letters, encoding |-> e]

SeqsA ==
    { QSeq(nm, ds, << [L |-> "A", Q |-> 0], [L |-> "C", Q |-> 31] >>, e) :
        nm \in {<<"a">>, <<"a", " ", "b">>},
        ds \in {<<>>, <<"d">>, <<"d", " ">>},
        e  \in {Nil, Some("Illumina1_3")} }
    \cup { QSeq(<<"a">>, <<>>, <<>>, Nil),
           QSeq(<<"a">>, <<>>, << [L |-> "@", Q |-> 0] >>, Nil) }

FastqWrite ==
    /\ comp = "fastqw"
    /\ NumWrites(hist) < MaxWrites
    /\ \E s \in SeqsA : Wrote("Write", Some(s), FastqWriterWrite(f, w, QID, s))
    /\ UNCHANGED <<comp, Width, QID, readerVars>>

\* NewReader over the bytes written, with a template of encoding e.
FastqReopen ==
    /\ comp = "fastqw"
    /\ hist # <<>>
    /\ comp' = "fastq"
    /\ f' = [data |-> f.data, err |-> "EOF", seeker |-> FALSE, pos |-> 1]
    /\ r' = <<>>
    /\ enc' \in {"Sanger", "Illumina1_3"}
    /\ hist' = Append(hist, Entry("NewReader", Nil, "nil", "nil", <<>>))
    /\ UNCHANGED <<last, writerVars>>

---------------------------------------------------------------------------
(* alignio.Writer: the wrapped seqio.Writer is the writer comp names. *)

\* self.Writer.Write(s)
SeqioWrite(kind, st, bw, width, qid, s) ==
    IF kind = "fastaw" THEN FastaWriterWrite(st, bw, width, s)
    ELSE FastqWriterWrite(st, bw, qid, s)

\* func (self *Writer) Write(a *alignment.Alignment) (n int, err os.Error)
\* The statement after the loop is panic("cannot reach").
RECURSIVE AlignioWriteLoop(_, _, _, _, _, _, _, _)
AlignioWroteOne(kind, width, qid, a, n, calls, s, res) ==
    IF res.err # "nil"
    THEN [n |-> n + res.n, err |-> res.err, st |-> res.st, bw |-> res.bw,
          issued |-> Append(calls, [arg |-> s, n |-> res.n, err |-> res.err])]
    ELSE AlignioWriteLoop(kind, res.st, res.bw, width, qid, Tail(a), n + res.n,
                          Append(calls, [arg |-> s, n |-> res.n, err |-> res.err]))

AlignioWriteLoop(kind, st, bw, width, qid, a, n, calls) ==
    IF a = <<>>
    THEN [n |-> n, err |-> "panic: cannot reach", st |-> st, bw |-> bw,
          issued |-> calls]
    ELSE AlignioWroteOne(kind, width, qid, a, n, calls, Head(a),
                         SeqioWrite(kind, st, bw, width, qid, Head(a)))

AlignioWriterWrite(kind, st, bw, width, qid, a) ==
    AlignioWriteLoop(kind, st, bw, width, qid, a, 0, <<>>)

\* The collections written: of the shortest and the longest body, or of the
\* plainest and the fullest quality record.
Elements(kind) ==
    IF kind = "fastaw"
    THEN {SeqNew(Some(<<"a">>), Body(0)), SeqNew(Some(<<"a">>), Body(MaxLen))}
    ELSE {QSeq(<<"a">>, <<>>, << [L |-> "A", Q |-> 0] >>, Nil),
          QSeq(<<"a">>, <<"d">>, << [L |-> "A", Q |-> 0], [L |-> "C", Q |-> 31] >>,
               Some("Illumina1_3"))}

Alignments(kind) == UNION { [1..n -> Elements(kind)] : n \in 0..MaxColl }

\* A call that panicked is the program's last.
Panicked(h) == \E i \in 1..Len(h) : h[i].err = "panic: cannot reach"

AlignioWrite ==
    /\ comp \in {"fastaw", "fastqw"}
    /\ NumWrites(hist) < MaxWrites
    /\ ~Panicked(hist)
    /\ \E a \in Alignments(comp) :
          Wrote("WriteAll", Some(a), AlignioWriterWrite(comp, f, w, Width, QID, a))
    /\ UNCHANGED <<comp, Width, QID, readerVars>>

---------------------------------------------------------------------------
(* Streams the readers are constructed over *)

FastaLines ==
    { <<">", "a">>, <<">">>, <<"A", "C">>, <<"G", " ", "T">>, <<>> }

LineSeqs(L) == UNION { [1..n -> L] : n \in 0..MaxLines }

\* The bytes of the lines ls, each newline-terminated, the last one only when term.
StreamOf(ls, term) ==
    LET whole == Flatten([i \in 1..Len(ls) |-> ls[i] \o <<NL>>])
    IN  IF term \/ whole = <<>> THEN whole ELSE SubSeq(whole, 1, Len(whole) - 1)

\* No writer is constructed.
NoWriter == w = [buf |-> <<>>, err |-> "nil"] /\ Width = 0 /\ QID = FALSE

\* NewReader(f)
InitFasta ==
    /\ comp = "fasta"
    /\ \E ls \in LineSeqs(FastaLines), term \in BOOLEAN, e \in {"EOF", "IOError"},
          sk \in BOOLEAN :
          /\ e = "IOError" => term
          /\ f = [data |-> StreamOf(ls, term), err |-> e, seeker |-> sk, pos |-> 1]
    /\ r = <<>>
    /\ last = Nil
    /\ enc = "None"
    /\ NoWriter
    /\ hist = <<>>

---------------------------------------------------------------------------
(* alignio.Reader: the wrapped seqio.Reader is the reader comp names. *)

\* self.Reader.Read()
SeqioRead(kind, st, buf, lst, e) ==
    IF kind = "fasta" THEN FastaReaderRead(st, buf, lst) ELSE FastqReaderRead(st, buf, e)

\* One turn of the loop: what to do with the outcome res of the wrapped Read.
RECURSIVE AlignioReadLoop(_, _, _, _, _, _, _)
\* Mutant: what was read before an error is returned along with the error.
AlignioReadStep_KeepsPartial(kind, e, a, calls, res) ==
    IF res.err = "nil"
    THEN AlignioReadLoop(kind, res.st, res.buf, res.last, e, Append(a, res.seq[1]),
                         Append(calls, [seq |-> res.seq, err |-> res.err]))
    ELSE [seq |-> Some(a),
          err |-> IF res.err = "EOF" THEN "nil" ELSE res.err,
          st |-> res.st, buf |-> res.buf, last |-> res.last, rderr |-> res.rderr,
          seen |-> Append(calls, [seq |-> res.seq, err |-> res.err])]

AlignioReadStep(kind, e, a, calls, res) ==
    IF res.err = "nil"
    THEN AlignioReadLoop(kind, res.st, res.buf, res.last, e, Append(a, res.seq[1]),
                         Append(calls, [seq |-> res.seq, err |-> res.err]))
    ELSE [seq |-> IF res.err = "EOF" THEN Some(a) ELSE Nil,
          err |-> IF res.err = "EOF" THEN "nil" ELSE res.err,
          st |-> res.st, buf |-> res.buf, last |-> res.last, rderr |-> res.rderr,
          seen |-> Append(calls, [seq |-> res.seq, err |-> res.err])]

AlignioReadLoop(kind, st, buf, lst, e, a, calls) ==
    AlignioReadStep(kind, e, a, calls, SeqioRead(kind, st, buf, lst, e))

\* func (self *Reader) Read() (a *alignment.Alignment, err os.Error)
AlignioReaderRead(kind, st, buf, lst, e) ==
    AlignioReadLoop(kind, st, buf, lst, e, <<>>, <<>>)

ReturnedAll(res) ==
    /\ f' = res.st
    /\ r' = res.buf
    /\ last' = res.last
    /\ hist' = Append(hist, Entry("ReadAll", res.seq, res.err, res.rderr, res.seen))

AlignioRead ==
    /\ comp \in {"fasta", "fastq"}
    /\ NumCalls(hist) < MaxCalls
    /\ ReturnedAll(AlignioReaderRead(comp, f, r, last, enc))
    /\ UNCHANGED <<comp, enc, writerVars>>

\* Four-line records, as lines.
GoodRecords ==
    { << <<"@", "a">>, <<"A", "C">>, <<"+">>, <<"!", "+">> >>,
      << <<"@", "a", " ", "d">>, <<"A", "C">>, <<"+", "a", " ", "d">>, <<"@", "!">> >>,
      << <<"@", "b">>, <<>>, <<"G">>, <<"+", "b">>, <<>>, <<"+">>, <<>> >> }

\* The lines that may follow the complete records: any of the four parts
\* of a record may be missing or malformed.
TailRecords ==
    { h \o sq \o sp \o q :
        h  \in {<<>>, << <<"@", "a">> >>, << <<"@", "a", " ", "d">> >>},
        sq \in {<<>>, << <<"A", "C">> >>, << <<"A">>, <<>>, <<"C", " ", "G">> >>},
        sp \in {<<>>, << <<"+">> >>, << <<"+", "a">> >>, << <<"+", "a", " ", "d">> >>,
                << <<"+", "b">> >>},
        q  \in {<<>>, << <<"!", "+">> >>, << <<"!">> >>, << <<"@", "!", "+">> >>} }

RecSeqs == UNION { [1..n -> GoodRecords] : n \in 0..MaxRecs }

\* NewReader(r, template)
InitFastq ==
    /\ comp = "fastq"
    /\ \E rs \in RecSeqs, tl \in TailRecords, term \in BOOLEAN,
          e \in {"EOF", "IOError"} :
          /\ e = "IOError" => term
          /\ f = [data |-> StreamOf(Flatten(rs) \o tl, term), err |-> e,
                  seeker |-> FALSE, pos |-> 1]
    /\ r = <<>>
    /\ last = Nil
    /\ enc \in {"Sanger", "Illumina1_3"}
    /\ NoWriter
    /\ hist = <<>>

NextFastq == FastqRead

SpecFastq == InitFastq /\ [][NextFastq]_vars

\* No reader is constructed.
NoReader == r = <<>> /\ last = Nil /\ enc = "None"

\* The sinks: never failing, or failing after 3k bytes.
Sinks ==
    { [data |-> <<>>, room |-> rm, closed |-> FALSE] :
        rm \in {-1} \cup {3 * k : k \in 0..MaxRoom} }

\* NewWriter(f, width)
InitFastaWriter ==
    /\ comp = "fastaw"
    /\ f \in Sinks
    /\ w = [buf |-> <<>>, err |-> "nil"]
    /\ Width \in 1..MaxWidth
    /\ QID = FALSE
    /\ NoReader
    /\ hist = <<>>

\* NewWriter(w), and QID set or not
InitFastqWriter ==
    /\ comp = "fastqw"
    /\ f \in Sinks
    /\ w = [buf |-> <<>>, err |-> "nil"]
    /\ Width = 0
    /\ QID \in BOOLEAN
    /\ NoReader
    /\ hist = <<>>

SpecFastaWriter == InitFastaWriter /\ [][FastaWrite \/ FastaWriterClose]_vars

SpecFastqWriter == InitFastqWriter /\ [][FastqWrite]_vars

\* Records written to a sink that does not fail, then read back.
InitRoundTrip ==
    /\ comp = "fastqw"
    /\ f = [data |-> <<>>, room |-> -1, closed |-> FALSE]
    /\ w = [buf |-> <<>>, err |-> "nil"]
    /\ Width = 0
    /\ QID \in BOOLEAN
    /\ NoReader
    /\ hist = <<>>

NextRoundTrip == FastqWrite \/ FastqReopen \/ FastqRead

SpecRoundTrip == InitRoundTrip /\ [][NextRoundTrip]_vars

\* Either writer, written through the collection adapter.
InitWriters == InitFastaWriter \/ InitFastqWriter

SpecAlignioWrite == InitWriters /\ [][AlignioWrite]_vars

NextFasta == FastaRead \/ FastaRewind

\* Either reader, read record by record.
InitReaders == InitFasta \/ InitFastq

NextReaders == FastaRead \/ FastqRead

SpecReaders == InitReaders /\ [][NextReaders]_vars

\* Either reader, read through the collection adapter.
SpecAlignioRead == InitReaders /\ [][AlignioRead]_vars

SpecFasta == InitFasta /\ [][NextFasta]_vars

---------------------------------------------------------------------------
(* Reference reading of a header/body stream, for the claims: the stream   *)
(* split at its newlines, and the records its lines denote.                *)

RECURSIVE SplitLines(_, _)
SplitLines(data, cur) ==
    IF data = <<>> THEN (IF cur = <<>> THEN <<>> ELSE <<cur>>)
    ELSE IF Head(data) = NL THEN <<cur>> \o SplitLines(Tail(data), <<>>)
    ELSE SplitLines(Tail(data), Append(cur, Head(data)))

NewlineTerminated(data) == data = <<>> \/ data[Len(data)] = NL

IsHeaderLine(l) == HasPrefix(TrimSpace(l), IDPrefix)
IsBlankLine(l) == TrimSpace(l) = <<>>

RECURSIVE RecordsOf(_, _)
RecordsOf(ls, recs) ==
    IF ls = <<>> THEN recs
    ELSE LET t == TrimSpace(Head(ls))
             n == Len(recs)
         IN  IF IsHeaderLine(Head(ls))
             THEN RecordsOf(Tail(ls),
                      Append(recs, [ID |-> Some(SubSeq(t, 2, Len(t))), Seq |-> <<>>]))
             ELSE IF n = 0 THEN RecordsOf(Tail(ls), recs)
             ELSE RecordsOf(Tail(ls),
                      [recs EXCEPT ![n].Seq = recs[n].Seq \o JoinFields(t)])

\* A stream of newline-terminated records, ending in a plain end-of-stream.
StartsWithHeader(ls) == ls # <<>> => IsHeaderLine(ls[1])

RecordStream(st) ==
    /\ st.err = "EOF"
    /\ NewlineTerminated(st.data)
    /\ StartsWithHeader(SelectSeq(SplitLines(st.data, <<>>), LAMBDA l : ~IsBlankLine(l)))

OnlyReads(h) == \A i \in 1..Len(h) : h[i].op = "Read"

\* C1: on a stream of k newline-terminated records the i-th Read (i <= k)
\* returns, with no error, the i-th record: its own header's label and the
\* letters of exactly the body lines up to the next header; every Read after
\* the k-th returns end-of-stream and no Sequence.
ReadsReturn(reads, recs) ==
    \A i \in 1..Len(reads) :
        IF i <= Len(recs)
        THEN reads[i].err = "nil" /\ reads[i].seq = Some(recs[i])
        ELSE reads[i].err = "EOF" /\ reads[i].seq = Nil

C1_ReadsRecordsInOrder ==
    (comp = "fasta" /\ RecordStream(f) /\ OnlyReads(hist)) =>
        ReadsReturn(hist, RecordsOf(SplitLines(f.data, <<>>), <<>>))

C1_Witness ==
    /\ comp = "fasta" /\ RecordStream(f) /\ OnlyReads(hist)
    /\ Len(RecordsOf(SplitLines(f.data, <<>>), <<>>)) = 2
    /\ Len(hist) = 3
    /\ hist[1].seq # Nil /\ hist[1].seq[1].Seq # <<>>
    /\ hist[2].seq # Nil /\ hist[2].seq[1].ID # hist[1].seq[1].ID
    /\ hist[3].err = "EOF"

\* The step just taken was a call of op: it added one entry to hist.
Called(op) == Len(hist') = Len(hist) + 1 /\ hist'[Len(hist')].op = op

\* C10: Rewind on a stream that is not seekable returns the
\* unsupported-operation error and changes nothing of the reader: the
\* lookahead label, the buffered bytes and the stream position stay, so the
\* next Read is computed from the same state as without the Rewind.
C10_RewindNotSeekerKeepsState ==
    /\ [][ (comp = "fasta" /\ Called("Rewind") /\ ~f.seeker) =>
              /\ hist'[Len(hist')].err = "NotSeeker"
              /\ last' = last /\ r' = r /\ f' = f ]_vars
    /\ [] ( (comp = "fasta" /\ ~f.seeker /\ RecordStream(f)) =>
              ReadsReturn(SelectSeq(hist, LAMBDA e : e.op = "Read"),
                          RecordsOf(SplitLines(f.data, <<>>), <<>>)) )

C10_Witness ==
    /\ comp = "fasta" /\ ~f.seeker
    /\ Len(hist) = 3
    /\ hist[1].op = "Read" /\ hist[1].err = "nil"
    /\ hist[2].op = "Rewind" /\ hist[2].err = "NotSeeker"
    /\ hist[3].op = "Read" /\ hist[3].err = "nil" /\ hist[3].seq[1].Seq # <<>>

---------------------------------------------------------------------------
(* Reference reading of a four-line stream, from the lines a Read met.     *)

\* The stream's lines, trimmed, the blank ones left out.
RECURSIVE TrimAll(_)
TrimAll(ls) ==
    IF ls = <<>> THEN <<>>
    ELSE IF IsBlankLine(Head(ls)) THEN TrimAll(Tail(ls))
    ELSE <<TrimSpace(Head(ls))>> \o TrimAll(Tail(ls))

NBLines(data) == TrimAll(SplitLines(data, <<>>))

IsHeaderA(l) == l # <<>> /\ l[1] = "@"
IsSeparatorA(l) == l # <<>> /\ l[1] = "+"
IsLettersA(l) == l # <<>> /\ l[1] \notin {"@", "+"}

\* The text of a header or separator line after its sigil.
TextOf(l) == SubSeq(l, 2, Len(l))

\* The header's name: its text up to the first whitespace; its description:
\* what follows that whitespace.
NameOf(h) ==
    LET ws == {i \in 1..Len(h) : h[i] \in {" ", "\t"}}
    IN  IF ws = {} THEN TextOf(h) ELSE SubSeq(h, 2, MinOf(ws) - 1)
DescOf(h) ==
    LET ws == {i \in 1..Len(h) : h[i] \in {" ", "\t"}}
    IN  IF ws = {} THEN <<>> ELSE SubSeq(h, MinOf(ws) + 1, Len(h))

\* Among the lines a Read met: the separator (the first line with the
\* separator sigil; 0 when none) and the header in force at line j.
SepIndex(ls) ==
    LET sp == {i \in 1..Len(ls) : IsSeparatorA(ls[i])}
    IN  IF sp = {} THEN 0 ELSE MinOf(sp)
HeaderBefore(ls, j) ==
    LET hd == {i \in 1..(j - 1) : IsHeaderA(ls[i])}
    IN  IF hd = {} THEN 0 ELSE MaxOf(hd)

\* The letters the reader holds when it meets line j: those of the
\* sequence-letter line it read last.
LettersBefore(ls, j) ==
    LET sq == {i \in 1..(j - 1) : IsLettersA(ls[i])}
    IN  IF sq = {} THEN <<>> ELSE JoinFields(ls[MaxOf(sq)])

\* Line j stopped the Read: it is the last line read, nothing more was asked
\* of the stream, and the Read ended in a ProtocolError with no Sequence.
RejectedAt(e, j) ==
    Len(e.sub) = j /\ e.rderr = "nil" /\ e.err \in ProtocolError /\ e.seq = Nil

\* The Read went on after line j: it read another line or met the stream's end.
WentOnAfter(e, j) == Len(e.sub) > j \/ e.rderr # "nil"

FastqReads == {i \in 1..Len(hist) : comp = "fastq" /\ hist[i].op = "Read"}

\* C6 as claimed: after a header, a separator line with trailing text is
\* accepted exactly when the text equals the header's name, and otherwise
\* Read ends in a ProtocolError with no Sequence; a bare separator is accepted.
SeparatorRule(e, sep, accepts) ==
    /\ TextOf(e.sub[sep]) = <<>> => WentOnAfter(e, sep)
    /\ (TextOf(e.sub[sep]) # <<>> /\ accepts) => WentOnAfter(e, sep)
    /\ (TextOf(e.sub[sep]) # <<>> /\ ~accepts) => RejectedAt(e, sep)

SeparatorByName(e, sep, hdr) ==
    (sep > 0 /\ hdr > 0) =>
        SeparatorRule(e, sep, TextOf(e.sub[sep]) = NameOf(e.sub[hdr]))

C6_SeparatorMatchesName ==
    \A i \in FastqReads :
        SeparatorByName(hist[i], SepIndex(hist[i].sub),
                        HeaderBefore(hist[i].sub, SepIndex(hist[i].sub)))

\* C6 amended: the separator's trailing text is accepted exactly when it
\* equals the whole text of the header after the sigil, the name and, when
\* there is one, the description; otherwise Read ends in a ProtocolError
\* with no Sequence; a bare separator is accepted.
SeparatorByHeaderText(e, sep, hdr) ==
    (sep > 0 /\ hdr > 0) =>
        SeparatorRule(e, sep, TextOf(e.sub[sep]) = TextOf(e.sub[hdr]))

C6_SeparatorMatchesHeaderText ==
    \A i \in FastqReads :
        SeparatorByHeaderText(hist[i], SepIndex(hist[i].sub),
                              HeaderBefore(hist[i].sub, SepIndex(hist[i].sub)))

\* A header with a description, met by a separator that repeats its whole
\* text, in a Read that returned the record.
SeparatorRepeatsHeader(e, sep, hdr) ==
    /\ sep > 0 /\ hdr > 0
    /\ DescOf(e.sub[hdr]) # <<>>
    /\ TextOf(e.sub[sep]) = TextOf(e.sub[hdr])
    /\ e.err = "nil"

C6_Witness ==
    \E i \in FastqReads :
        SeparatorRepeatsHeader(hist[i], SepIndex(hist[i].sub),
                               HeaderBefore(hist[i].sub, SepIndex(hist[i].sub)))

\* C7: when the first non-blank line after the separator has, stripped of
\* whitespace, a length other than the number of letters the reader holds,
\* Read ends in a ProtocolError with no Sequence; so a Sequence that Read
\* returns has one quality score per letter, the i-th being the decoding of
\* the i-th quality byte.
QualityRule(e, ls, j, held) ==
    /\ (j > 0 /\ Len(ls) > j /\ Len(JoinFields(ls[j + 1])) # Len(held)) =>
           RejectedAt(e, j + 1)
    /\ e.err = "nil" =>
           /\ j > 0 /\ Len(ls) = j + 1 /\ e.seq # Nil
           /\ Len(e.seq[1].letters) = Len(JoinFields(ls[j + 1]))
           /\ Len(e.seq[1].letters) = Len(held)
           /\ \A k \in 1..Len(e.seq[1].letters) :
                  /\ e.seq[1].letters[k].L = held[k]
                  /\ e.seq[1].letters[k].Q = DecodeToQphred(enc, JoinFields(ls[j + 1])[k])

C7_QualityLengthChecked ==
    \A i \in FastqReads :
        QualityRule(hist[i], hist[i].sub, SepIndex(hist[i].sub),
                    LettersBefore(hist[i].sub, SepIndex(hist[i].sub)))

\* A quality line shorter than the letters, refused.
QualityTooShort(e, ls, j) ==
    /\ j > 0 /\ Len(ls) = j + 1
    /\ Len(JoinFields(ls[j + 1])) < Len(LettersBefore(ls, j))
    /\ e.err = ErrLengthMismatch /\ e.seq = Nil

C7_Witness ==
    \E i \in FastqReads : QualityTooShort(hist[i], hist[i].sub, SepIndex(hist[i].sub))

\* A well-formed four-line record: header, letters, a separator that is
\* bare or repeats the header, and as many quality bytes as letters.
WellFormedA(h, s, p, q) ==
    /\ IsHeaderA(h) /\ IsLettersA(s) /\ IsSeparatorA(p)
    /\ (TextOf(p) = <<>> \/ TextOf(p) = TextOf(h))
    /\ Len(JoinFields(q)) = Len(JoinFields(s))

RECURSIVE CountRecords(_, _)
CountRecords(ls, k) ==
    IF k + 3 <= Len(ls) /\ WellFormedA(ls[k], ls[k + 1], ls[k + 2], ls[k + 3])
    THEN 1 + CountRecords(ls, k + 4) ELSE 0

\* A record cut short before its quality line.
TruncatedA(rem) ==
    /\ Len(rem) <= 3
    /\ Len(rem) >= 1 => IsHeaderA(rem[1])
    /\ Len(rem) >= 2 => IsLettersA(rem[2])
    /\ Len(rem) = 3 =>
           IsSeparatorA(rem[3]) /\ (TextOf(rem[3]) = <<>> \/ TextOf(rem[3]) = TextOf(rem[1]))

RecordA(e, h, s, q) ==
    [name |-> NameOf(h), desc |-> DescOf(h),
     letters |-> [k \in 1..Len(JoinFields(s)) |->
                    [L |-> JoinFields(s)[k], Q |-> DecodeToQphred(e, JoinFields(q)[k])]]]

\* C8: on a stream of N well-formed four-line records, blank lines apart,
\* that may end in a record cut short before its quality line, the i-th
\* Read (i <= N) consumes the lines of the i-th record and returns it, and
\* every later Read returns the error the stream ends with and no Sequence.
RecordsThenEnd(ls, n) ==
    TruncatedA(SubSeq(ls, 4 * n + 1, Len(ls))) =>
        \A i \in 1..Len(hist) :
            IF i <= n
            THEN /\ hist[i].err = "nil"
                 /\ hist[i].sub = SubSeq(ls, 4 * i - 3, 4 * i)
                 /\ hist[i].seq =
                        Some(RecordA(enc, ls[4 * i - 3], ls[4 * i - 2], ls[4 * i]))
            ELSE hist[i].err = f.err /\ hist[i].seq = Nil

RecordsIn(ls) == RecordsThenEnd(ls, CountRecords(ls, 1))

C8_OneRecordPerRead ==
    (comp = "fastq" /\ OnlyReads(hist)) => RecordsIn(NBLines(f.data))

\* Two records with blank lines among them, then a header, its letters and
\* its separator: two Reads return records, the third the end-of-stream.
TwoRecordsAndATruncatedOne(ls) ==
    /\ CountRecords(ls, 1) = 2 /\ Len(ls) = 11
    /\ TruncatedA(SubSeq(ls, 9, Len(ls)))
    /\ Len(SplitLines(f.data, <<>>)) > Len(ls)

C8_Witness ==
    /\ comp = "fastq" /\ OnlyReads(hist) /\ f.err = "EOF"
    /\ Len(hist) = 3 /\ hist[2].err = "nil" /\ hist[3].err = "EOF"
    /\ TwoRecordsAndATruncatedOne(NBLines(f.data))

\* C9: a Read, of either reader, whose read of the underlying stream fails
\* with an error other than end-of-stream returns that error and no Sequence.
C9_StreamErrorPassedThrough ==
    \A i \in 1..Len(hist) :
        (hist[i].op = "Read" /\ hist[i].rderr \notin {"nil", "EOF"}) =>
            hist[i].err = hist[i].rderr /\ hist[i].seq = Nil

\* C4: a bulk read calls the wrapped Read until its first error; on
\* end-of-stream it returns, with no error, the Sequences read before it in
\* read order (none when the first Read is at end-of-stream); on any other
\* error it returns that error and no collection.
BulkReadRule(e, calls, n) ==
    /\ n >= 1
    /\ \A k \in 1..(n - 1) : calls[k].err = "nil" /\ calls[k].seq # Nil
    /\ calls[n].err # "nil"
    /\ IF calls[n].err = "EOF"
       THEN /\ e.err = "nil"
            /\ e.seq = Some([k \in 1..(n - 1) |-> calls[k].seq[1]])
       ELSE /\ e.err = calls[n].err
            /\ e.seq = Nil

C4_BulkRead ==
    \A i \in 1..Len(hist) :
        hist[i].op = "ReadAll" => BulkReadRule(hist[i], hist[i].sub, Len(hist[i].sub))

\* A bulk read that had read two Sequences when a ProtocolError ended it.
C4_Witness ==
    \E i \in 1..Len(hist) :
        /\ hist[i].op = "ReadAll"
        /\ Len(hist[i].sub) = 3
        /\ hist[i].err \in ProtocolError
        /\ hist[i].seq = Nil

---------------------------------------------------------------------------
(* The collection adapter's bulk write *)

RECURSIVE SumN(_)
SumN(calls) == IF calls = <<>> THEN 0 ELSE Head(calls).n + SumN(Tail(calls))

AllSucceeded(calls) == \A k \in 1..Len(calls) : calls[k].err = "nil"

\* What the bulk write of a is to do, given the element writes it made.
BulkWriteRule(a, e) ==
    /\ Len(e.sub) <= Len(a)
    /\ \A k \in 1..Len(e.sub) : e.sub[k].arg = a[k]
    /\ \A k \in 1..(Len(e.sub) - 1) : e.sub[k].err = "nil"
    /\ e.n = SumN(e.sub)
    /\ IF AllSucceeded(e.sub)
       THEN Len(e.sub) = Len(a) /\ e.err = "nil"
       ELSE e.err = e.sub[Len(e.sub)].err

\* C2: a bulk write calls the wrapped writer once per element, in order, up
\* to the first failure; it returns the sum of the elements' byte counts,
\* with no error when every element write succeeded and with the failing
\* write's error otherwise.
C2_BulkWrite ==
    \A i \in 1..Len(hist) :
        hist[i].op = "WriteAll" => BulkWriteRule(hist[i].seq[1], hist[i])

---------------------------------------------------------------------------
(* The lines of a written Record-B body *)

CeilDiv(a, b) == (a + b - 1) \div b

\* The body lines a Write issued: those after the header line.
BodyLinesOf(e) == Tail(e.sub)

BodyLinesRule(s, e) ==
    /\ Len(BodyLinesOf(e)) = CeilDiv(Len(s.Seq), Width)
    /\ \A k \in 1..Len(BodyLinesOf(e)) : BodyLinesOf(e)[k] # <<NL>>

\* C3: a Write of a body of length L > 0 with width W > 0 that succeeds
\* emits ceil(L/W) body lines after the header line, none of them empty.
C3_BodyLines ==
    \A i \in 1..Len(hist) :
        (/\ comp = "fastaw"
         /\ hist[i].op = "Write"
         /\ hist[i].err = "nil"
         /\ Len(hist[i].seq[1].Seq) > 0)
        => BodyLinesRule(hist[i].seq[1], hist[i])

---------------------------------------------------------------------------
(* Record-A round trip *)

\* The position in h of the NewReader over the written bytes, or 0.
OpenedAt(h) ==
    IF \E i \in 1..Len(h) : h[i].op = "NewReader"
    THEN CHOOSE i \in 1..Len(h) : h[i].op = "NewReader"
    ELSE 0

SameRecord(got, s) ==
    /\ got.name = s.name
    /\ got.desc = s.desc
    /\ got.letters = s.letters

\* Non-empty letters; the quality is of the letters' length by construction.
HasLetters(s) == Len(s.letters) > 0

NoSpaceIn(bs) == \A k \in 1..Len(bs) : bs[k] \notin Space \cup {NL, CR}

\* The record's text survives the line format: a name and letters free of
\* whitespace, letters not opening with a sigil, a description that does
\* not end in whitespace nor spans lines.
Representable(s) ==
    /\ HasLetters(s)
    /\ NoSpaceIn(s.name)
    /\ \A k \in 1..Len(s.desc) : s.desc[k] \notin {NL, CR}
    /\ s.desc # <<>> => s.desc[Len(s.desc)] \notin Space
    /\ NoSpaceIn([k \in 1..Len(s.letters) |-> s.letters[k].L])
    /\ NoSpaceIn([k \in 1..Len(s.letters) |-> Encode(s.letters[k].Q, WriterEncoding(s))])
    /\ s.letters[1].L \notin {"@", "+"}

\* The j-th Read after the opening returned the j-th record written.
ReadBack(h, o, j) ==
    /\ h[o + j].err = "nil"
    /\ h[o + j].seq # Nil
    /\ SameRecord(h[o + j].seq[1], h[j].seq[1])

\* Every record written up to the j-th satisfies P, and all writes succeeded.
WrittenUpTo(h, o, j, P(_)) ==
    /\ j <= o - 1
    /\ \A k \in 1..(o - 1) : h[k].op = "Write" /\ h[k].err = "nil"
    /\ \A k \in 1..j : P(h[k].seq[1])
    /\ WriterEncoding(h[j].seq[1]) = enc

RoundTripRule(h, o, P(_)) ==
    \A j \in 1..(Len(h) - o) : WrittenUpTo(h, o, j, P) => ReadBack(h, o, j)

\* C5 as stated: records with non-empty letters, written and read back with
\* the same encoding, come back with identical name, description, letters
\* and quality scores, and no error.
C5_RoundTrip ==
    OpenedAt(hist) > 0 => RoundTripRule(hist, OpenedAt(hist), HasLetters)

\* C5, amended: the same for records whose text survives the line format.
C5_RoundTripRepresentable ==
    OpenedAt(hist) > 0 => RoundTripRule(hist, OpenedAt(hist), Representable)

\* Two described records written with the ID on the separator, both read back.
C5_Witness ==
    /\ OpenedAt(hist) = 3
    /\ Len(hist) = 5
    /\ QID
    /\ WrittenUpTo(hist, 3, 2, Representable)
    /\ hist[2].seq[1].desc # <<>>
    /\ ReadBack(hist, 3, 2)

---------------------------------------------------------------------------
(* Closing the Record-B writer *)

\* The call that ended last was op.
LastCall(op) == hist # <<>> /\ hist[Len(hist)].op = op

\* C11: a Close of the writer closes the underlying stream, also when its
\* flush reports an error, and a Close whose flush succeeded has left no
\* written byte in the buffer.
C11_CloseReleasesStream ==
    (comp = "fastaw" /\ LastCall("Close")) =>
        /\ f.closed
        /\ hist[Len(hist)].err = "nil" => w.buf = <<>>

---------------------------------------------------------------------------
(* Record-A reader: a separator before any header *)

\* In the Read e the separator is line sep and the header before it is line
\* hdr (0: none): without a header the separator ends the Read in the
\* no-header ProtocolError, so a Read that went past its separator, to a
\* quality line, had parsed a header and builds a Sequence.
HeaderFirstRule(e, sep, hdr) ==
    /\ (sep > 0 /\ hdr = 0) =>
           RejectedAt(e, sep) /\ e.err = ErrNoHeader
    /\ (sep > 0 /\ Len(e.sub) > sep) => hdr > 0
    /\ e.err # "panic"
    /\ e.err = "nil" => (e.seq # Nil /\ hdr > 0)

\* C12: a separator line met before any header line of the current Read
\* makes the Read fail with a ProtocolError and no Sequence; whenever a
\* quality line is processed a header was parsed in the same Read and the
\* Sequence under construction exists.
C12_SeparatorNeedsHeader ==
    \A i \in FastqReads :
        HeaderFirstRule(hist[i], SepIndex(hist[i].sub),
                        HeaderBefore(hist[i].sub, SepIndex(hist[i].sub)))

\* After a Read that returned a record, a Read that met letters and then a
\* separator with no header of its own, and was refused.
SeparatorWithoutHeader(e, sep) ==
    /\ sep > 1
    /\ HeaderBefore(e.sub, sep) = 0
    /\ e.err = ErrNoHeader /\ e.seq = Nil

C12_Witness ==
    /\ comp = "fastq" /\ Len(hist) >= 2
    /\ hist[1].op = "Read" /\ hist[1].err = "nil"
    /\ SeparatorWithoutHeader(hist[2], SepIndex(hist[2].sub))

---------------------------------------------------------------------------
(* Record-B reader: Rewind on a seekable stream *)

\* What the first n Reads return, the reader being in the given state.
RECURSIVE ReadsFrom(_, _, _, _)
ReadsAfter(res, n) ==
    << [seq |-> res.seq, err |-> res.err] >> \o ReadsFrom(res.st, res.buf, res.last, n - 1)

ReadsFrom(st, buf, lst, n) ==
    IF n = 0 THEN <<>> ELSE ReadsAfter(FastaReaderRead(st, buf, lst), n)

\* The same from a reader freshly constructed on the stream.
FreshReads(n) == ReadsFrom([f EXCEPT !.pos = 1], <<>>, Nil, n)

\* The position of the last Rewind in h, or 0.
LastRewind(h) ==
    IF \E i \in 1..Len(h) : h[i].op = "Rewind"
    THEN MaxOf({i \in 1..Len(h) : h[i].op = "Rewind"})
    ELSE 0

SameAsFresh(h, k, fresh) ==
    \A j \in 1..(Len(h) - k) :
        h[k + j].seq = fresh[j].seq /\ h[k + j].err = fresh[j].err

\* C13: after a Rewind that succeeded, the Reads that follow return what
\* the Reads of a freshly constructed reader on the same stream return.
C13_RewindIsFreshReader ==
    (comp = "fasta" /\ LastRewind(hist) > 0 /\ hist[LastRewind(hist)].err = "nil") =>
        SameAsFresh(hist, LastRewind(hist), FreshReads(Len(hist) - LastRewind(hist)))

---------------------------------------------------------------------------
(* Record-B writer: the chunks of a body *)

\* The letters of a body line: the line without its prefix and its newline.
LettersOf(line) == SubSeq(line, Len(SeqPrefix) + 1, Len(line) - 1)

IsBodyLine(line, width) ==
    /\ Len(line) >= Len(SeqPrefix) + 1
    /\ SubSeq(line, 1, Len(SeqPrefix)) = SeqPrefix
    /\ line[Len(line)] = NL
    /\ Len(LettersOf(line)) <= width

\* The letters of the body lines, in the order the lines were issued.
ChunksOf(lines) == Flatten([k \in 1..Len(lines) |-> LettersOf(lines[k])])

\* A Write of s issues the header line first and then body lines of at most
\* Width letters; one that succeeds has issued at least one body line, and
\* its chunks make up the body; one that failed has issued the chunks of a
\* prefix of the body.
ChunkRule(s, e) ==
    /\ Len(e.sub) >= 1 /\ e.sub[1] = HeaderLine(s)
    /\ \A k \in 2..Len(e.sub) : IsBodyLine(e.sub[k], Width)
    /\ e.err = "nil" => (Len(e.sub) >= 2 /\ ChunksOf(Tail(e.sub)) = s.Seq)
    /\ e.err # "nil" =>
           ChunksOf(Tail(e.sub)) = SubSeq(s.Seq, 1, Len(ChunksOf(Tail(e.sub))))

\* C14: for every width W > 0 and body length L >= 0, Write returns, having
\* emitted the header line, then at least one body line, each the prefix,
\* at most W letters and a newline, the chunks in order being the body.
C14_ChunksMakeBody ==
    \A i \in 1..Len(hist) :
        (comp = "fastaw" /\ hist[i].op = "Write") => ChunkRule(hist[i].seq[1], hist[i])

\* An empty body written as one empty line, then a body longer than the
\* width written in several lines.
C14_Witness ==
    /\ comp = "fastaw" /\ Len(hist) = 2
    /\ hist[1].op = "Write" /\ hist[1].err = "nil"
    /\ hist[1].seq[1].Seq = <<>> /\ Len(hist[1].sub) = 2
    /\ hist[2].op = "Write" /\ hist[2].err = "nil"
    /\ Len(hist[2].seq[1].Seq) > Width /\ Len(hist[2].sub) > 2

---------------------------------------------------------------------------
(* Record-A reader: several sequence-letter lines *)

\* The letters of the sequence-letter lines among lines hdr+1 .. sep-1 of
\* ls, whitespace stripped, in order.
RECURSIVE LettersBetween(_, _, _)
LettersBetween(ls, from, to) ==
    IF from > to THEN <<>>
    ELSE (IF IsLettersA(ls[from]) THEN JoinFields(ls[from]) ELSE <<>>)
             \o LettersBetween(ls, from + 1, to)

\* With all the letters of the record being all, the quality line after the
\* separator is measured against them and a returned Sequence carries them.
AllLettersRule(e, ls, sep, all) ==
    /\ (sep > 0 /\ Len(ls) > sep /\ Len(JoinFields(ls[sep + 1])) = Len(all)) =>
           e.err = "nil"
    /\ e.err = "nil" =>
           /\ e.seq # Nil
           /\ [k \in 1..Len(e.seq[1].letters) |-> e.seq[1].letters[k].L] = all

\* C15: the letters of several sequence-letter lines before the separator
\* are appended in order: the returned Sequence has the letters of all the
\* lines, and the quality line is to have their total length.
C15_LetterLinesAppended ==
    \A i \in FastqReads :
        (SepIndex(hist[i].sub) > 0 /\ HeaderBefore(hist[i].sub, SepIndex(hist[i].sub)) > 0) =>
            AllLettersRule(hist[i], hist[i].sub, SepIndex(hist[i].sub),
                           LettersBetween(hist[i].sub,
                                          HeaderBefore(hist[i].sub, SepIndex(hist[i].sub)) + 1,
                                          SepIndex(hist[i].sub) - 1))

\* C7, the accumulated letters being those of all the sequence-letter lines
\* of the record: a quality line of another length ends the Read in a
\* ProtocolError with no Sequence, and a returned Sequence has these
\* letters, each with the decoding of the quality byte at its place.
C7_QualityLengthOfAccumulated ==
    \A i \in FastqReads :
        (SepIndex(hist[i].sub) > 0 /\ HeaderBefore(hist[i].sub, SepIndex(hist[i].sub)) > 0) =>
            QualityRule(hist[i], hist[i].sub, SepIndex(hist[i].sub),
                        LettersBetween(hist[i].sub,
                                       HeaderBefore(hist[i].sub, SepIndex(hist[i].sub)) + 1,
                                       SepIndex(hist[i].sub) - 1))

---------------------------------------------------------------------------
(* Record-A writer: the sub-writes of a Write *)

\* The text of a header or separator line of s.
LineTextA(sigil, s) ==
    <<sigil>> \o s.name \o (IF s.desc = <<>> THEN <<>> ELSE <<" ">> \o s.desc) \o <<NL>>

\* The text of the record of s: header, letters, newline, separator line,
\* quality bytes, newline.
RecordText(s, qid) ==
    LineTextA("@", s)
        \o [k \in 1..Len(s.letters) |-> s.letters[k].L] \o <<NL>>
        \o (IF qid THEN LineTextA("+", s) ELSE <<"+", NL>>)
        \o [k \in 1..Len(s.letters) |-> Encode(s.letters[k].Q, WriterEncoding(s))] \o <<NL>>

\* The bytes handed to the sink by the sub-writes, in order.
Handed(subs) == Flatten([k \in 1..Len(subs) |-> subs[k].p])

SubWriteRule(s, e) ==
    /\ e.n = SumN(e.sub)
    /\ \A k \in 1..(Len(e.sub) - 1) : e.sub[k].err = "nil"
    /\ Handed(e.sub) = SubSeq(RecordText(s, QID), 1, Len(Handed(e.sub)))
    /\ IF AllSucceeded(e.sub)
       THEN e.err = "nil" /\ Handed(e.sub) = RecordText(s, QID)
       ELSE e.err = e.sub[Len(e.sub)].err

\* C16: the count a Write returns is the sum of the counts of the
\* sub-writes it issued, whether it succeeded or failed; the sub-writes
\* hand over header, letters, newline, separator line, quality bytes and
\* newline in this order; the first sub-write that fails is the last, and
\* its error is returned.
C16_SubWritesCounted ==
    \A i \in 1..Len(hist) :
        (comp = "fastqw" /\ hist[i].op = "Write") =>
            SubWriteRule(hist[i].seq[1], hist[i])

\* A Write that failed in a sub-write the sink took a part of, after a Write
\* that succeeded.
C16_Witness ==
    /\ comp = "fastqw" /\ Len(hist) = 2
    /\ hist[1].op = "Write" /\ hist[1].err = "nil"
    /\ hist[2].op = "Write" /\ hist[2].err = "IOError"
    /\ Len(hist[2].sub) >= 2
    /\ hist[2].sub[Len(hist[2].sub)].n > 0
    /\ hist[2].n = SumN(hist[2].sub)

---------------------------------------------------------------------------
(* Record-A reader: the line after the separator *)

\* The lines the Reads before the i-th consumed, in order.
RECURSIVE ConsumedBefore(_, _)
ConsumedBefore(h, i) ==
    IF i <= 1 THEN <<>> ELSE ConsumedBefore(h, i - 1) \o h[i - 1].sub

\* In the Read e a line q follows the accepted separator: it is the last
\* line the Read consumes and is taken as the quality line, the Read ending
\* with a Sequence whose scores are the decodings of its bytes or, its
\* length being wrong, in the length-mismatch error.
QualityLineRule(e, sep, q) ==
    /\ Len(e.sub) = sep + 1
    /\ e.rderr = "nil"
    /\ e.err \in {"nil", ErrLengthMismatch}
    /\ e.err = "nil" =>
           /\ e.seq # Nil
           /\ [k \in 1..Len(e.seq[1].letters) |-> e.seq[1].letters[k].Q]
                  = [k \in 1..Len(JoinFields(q)) |-> DecodeToQphred(enc, JoinFields(q)[k])]

\* The Read e begins awaiting a header: its lines are the stream's next
\* ones, a separator before a header of its own is refused, and a Sequence
\* it returns is named by a header it read itself.
AwaitsHeaderRule(e, before, ls) ==
    /\ Len(before) + Len(e.sub) <= Len(ls)
    /\ e.sub = SubSeq(ls, Len(before) + 1, Len(before) + Len(e.sub))
    /\ (e.sub # <<>> /\ IsSeparatorA(e.sub[1])) => e.err = ErrNoHeader
    /\ e.err = "nil" =>
           /\ HeaderBefore(e.sub, SepIndex(e.sub)) > 0
           /\ e.seq[1].name = NameOf(e.sub[HeaderBefore(e.sub, SepIndex(e.sub))])

\* C17: once the separator is accepted the next non-blank line is the
\* quality line whatever its first byte, a leading header or separator
\* sigil included; the Read after it begins awaiting a header again.
C17_QualityLineWhateverItsSigil ==
    \A i \in FastqReads :
        /\ (SepIndex(hist[i].sub) > 0 /\ Len(hist[i].sub) > SepIndex(hist[i].sub)) =>
               QualityLineRule(hist[i], SepIndex(hist[i].sub),
                               hist[i].sub[SepIndex(hist[i].sub) + 1])
        /\ OnlyReads(hist) =>
               AwaitsHeaderRule(hist[i], ConsumedBefore(hist, i), NBLines(f.data))

\* A record whose quality line opens with the header sigil and one whose
\* quality line opens with the separator sigil, both returned, and a
\* further Read.
SigilQuality(e, c) ==
    /\ e.err = "nil"
    /\ SepIndex(e.sub) > 0 /\ Len(e.sub) = SepIndex(e.sub) + 1
    /\ e.sub[Len(e.sub)][1] = c

C17_Witness ==
    /\ comp = "fastq" /\ OnlyReads(hist) /\ Len(hist) = 3
    /\ \E i \in 1..2 : SigilQuality(hist[i], "@")
    /\ \E i \in 1..2 : SigilQuality(hist[i], "+")

---------------------------------------------------------------------------
(* Record-A: which encoding an instance uses *)

FastqWrites == {i \in 1..Len(hist) : hist[i].op = "Write" /\ hist[i].err = "nil"}

\* The quality bytes a Write that succeeded handed to the sink: those of
\* the last line of the record.
QualityBytes(e) ==
    SubSeq(Handed(e.sub), Len(Handed(e.sub)) - Len(e.seq[1].letters),
           Len(Handed(e.sub)) - 1)

\* The quality bytes of the Write e are its scores under the encoding c.
EncodedWith(e, c) ==
    QualityBytes(e) = [k \in 1..Len(e.seq[1].letters) |-> Encode(e.seq[1].letters[k].Q, c)]

\* The scores of the Sequence the Read e returned are the decodings, under
\* c, of the bytes of the quality line it read.
DecodedWith(e, c) ==
    e.err = "nil" =>
        [k \in 1..Len(e.seq[1].letters) |-> e.seq[1].letters[k].Q]
            = [k \in 1..Len(JoinFields(e.sub[Len(e.sub)])) |->
                   DecodeToQphred(c, JoinFields(e.sub[Len(e.sub)])[k])]

\* The encoding the Sequence s advertises, or the writer's default.
AdvertisedOrDefault(s) == IF s.encoding = Nil THEN "Sanger" ELSE s.encoding[1]

\* The encoding of a Reader does not change once it is constructed.
ReaderEncodingKept == (comp = "fastq" /\ comp' = "fastq") => enc' = enc

\* C18 as claimed: one encoding per instance, so that all the records one
\* Writer writes are encoded with the same scheme, whichever encodings the
\* Sequences advertise (and what a Reader reads is decoded with the one
\* encoding resolved at its construction).
C18_EncodingFixedPerInstance ==
    /\ \E c \in {"Sanger", "Illumina1_3"} : \A i \in FastqWrites : EncodedWith(hist[i], c)
    /\ \A i \in FastqReads : DecodedWith(hist[i], enc)

\* C18 amended: a Reader decodes every record with the encoding resolved at
\* its construction, which never changes; a Writer resolves the encoding
\* anew in every Write, from the Sequence written, the default when it
\* advertises none.
C18_EncodingPerReaderAndPerWrite ==
    /\ [](/\ \A i \in FastqWrites : EncodedWith(hist[i], AdvertisedOrDefault(hist[i].seq[1]))
          /\ \A i \in FastqReads : DecodedWith(hist[i], enc))
    /\ [][ReaderEncodingKept]_vars

\* One Writer wrote a Sequence advertising no encoding and one advertising
\* another than the default; a Reader over the bytes returned a record.
C18_Witness ==
    /\ comp = "fastq" /\ Len(hist) = 4
    /\ FastqWrites = {1, 2}
    /\ hist[1].seq[1].letters # <<>> /\ hist[2].seq[1].letters # <<>>
    /\ AdvertisedOrDefault(hist[1].seq[1]) # AdvertisedOrDefault(hist[2].seq[1])
    /\ hist[4].op = "Read" /\ hist[4].err = "nil"

---------------------------------------------------------------------------
(* Record-B reader: a last line without its newline *)

\* What n Reads of a fresh reader return on the stream with the newline
\* its last line lacks.
TerminatedReads(n) ==
    ReadsFrom([f EXCEPT !.pos = 1, !.data = f.data \o <<NL>>], <<>>, Nil, n)

\* C19: a stream that ends without a final newline is read as the same
\* stream with the newline: its last line is processed, as part of the
\* body of the final record or as the header of a final record.
C19_LastLineWithoutNewline ==
    (/\ comp = "fasta" /\ OnlyReads(hist)
     /\ f.err = "EOF" /\ ~NewlineTerminated(f.data)) =>
        SameAsFresh(hist, 0, TerminatedReads(Len(hist)))

---------------------------------------------------------------------------
(* The collection adapter over a Record-A stream cut in a record *)

\* The lines ls are n well-formed records and then the beginning of a
\* record, cut before its quality line.
EndsInARecord(ls, n) ==
    /\ Len(ls) > 4 * n
    /\ TruncatedA(SubSeq(ls, 4 * n + 1, Len(ls)))

\* C20: the bulk read of a Record-A stream that ends in the middle of a
\* record, before the quality line, returns an error, not the collection
\* of the complete records with no error.
C20_BulkReadOfCutRecord ==
    (/\ comp = "fastq" /\ f.err = "EOF"
     /\ hist # <<>> /\ hist[1].op = "ReadAll"
     /\ EndsInARecord(NBLines(f.data), CountRecords(NBLines(f.data), 1))) =>
        hist[1].err # "nil"

====
